---- MODULE Spec2Model ----
(***************************************************************************)
(* Model of e3.aws.troposphere: the Construct capability contract and the  *)
(* Stack aggregation root (src/src/e3/aws/troposphere/__init__.py).        *)
(*                                                                         *)
(* Two Stack objects, A and B, are built by add calls (single elements,    *)
(* the other stack, or the stack itself) and queried by export,            *)
(* cfn_policy_document, __getitem__ and create_data_dir.  Every public     *)
(* method is one action; the variable last records the call that was just  *)
(* made: its arguments, the callbacks it invoked on constructs, the value  *)
(* it returned, the exception it raised, whether it repeats the preceding  *)
(* export or cfn_policy_document call, and whether it is an add chained to *)
(* the result of the preceding add.  list_of is the list object that the   *)
(* constructs attribute of a stack is bound to.                            *)
(*                                                                         *)
(* Template is troposphere.Template.  Its resources attribute is a dict    *)
(* (insertion ordered), modelled as a sequence of [key, value] entries.    *)
(* add_resource(list) inserts the list's elements one by one under their   *)
(* title and raises ValueError at the first title that is already a key    *)
(* (Template._update / handle_duplicate_key); the elements before it stay  *)
(* inserted.  The library's MAX_RESOURCES limit is far above the sizes     *)
(* reached here and is not modelled.                                       *)
(***************************************************************************)
EXTENDS Integers, Sequences, FiniteSets, TLC

VARIABLES constructs, template, description, s3_bucket, list_of, last, nadds

vars == <<constructs, template, description, s3_bucket, list_of, last, nadds>>

\* Bound on the number of add calls of one run.
MaxAdds == 3

\* Bound on the number of routes of an HttpApi construct.
MaxRoutes == 2
MaxDocLen == 2

Stacks == {"A", "B"}

None == "<None>"

(***************************************************************************)
(* Names and identifiers are sequences of characters.                      *)
(***************************************************************************)
Alnum == {"a", "b", "A", "B"}

upper(ch) == IF ch = "a" THEN "A" ELSE IF ch = "b" THEN "B" ELSE ch

lower(ch) == IF ch = "A" THEN "a" ELSE IF ch = "B" THEN "b" ELSE ch

\* re.split("[^a-zA-Z0-9]", name): acc is the list of finished segments,
\* cur the segment being read.
RECURSIVE split(_, _, _)
split(name, acc, cur) ==
    IF name = <<>> THEN Append(acc, cur)
    ELSE IF Head(name) \in Alnum
         THEN split(Tail(name), acc, Append(cur, Head(name)))
         ELSE split(Tail(name), Append(acc, cur), <<>>)

\* str.capitalize: first character upper case, the others lower case.
capitalize(k) ==
    [i \in 1..Len(k) |-> IF i = 1 THEN upper(k[i]) ELSE lower(k[i])]

RECURSIVE join(_)
join(segs) == IF segs = <<>> THEN <<>> ELSE Head(segs) \o join(Tail(segs))

name_to_id(name) ==
    LET segs == split(name, <<>>, <<>>)
    IN  join([i \in 1..Len(segs) |-> capitalize(segs[i])])

(***************************************************************************)
(* The elements handed to add.  Every element is a record                  *)
(* [kind, title, type, props]; kind is the class isinstance tests.         *)
(***************************************************************************)
AWSObj(title, type, props) ==
    [kind |-> "AWSObject", title |-> title, type |-> type, props |-> props]

Cons(name, type) ==
    [kind |-> "Construct", title |-> name, type |-> type, props |-> ""]

StackRef(t) ==
    [kind |-> "Stack", title |-> <<t>>, type |-> "Stack", props |-> ""]

\* Raw resources: queue1 and queue2 share the title "Ab".
queue1 == AWSObj(<<"A", "b">>, "AWS::SQS::Queue", "q1")
queue2 == AWSObj(<<"A", "b">>, "AWS::SQS::Queue", "q2")

\* Constructs: a function staged in the stack's bucket, a construct that
\* expands to nothing, and a construct whose resources() raises.
fun == Cons(<<"a", "-", "b">>, "Function")
empty == Cons(<<"b">>, "Empty")
broken == Cons(<<"B">>, "Broken")

\* Two more raw resources, with identifiers of their own.
bucket == AWSObj(<<"B", "a">>, "AWS::S3::Bucket", "b1")
topic == AWSObj(<<"A", "a">>, "AWS::SNS::Topic", "t1")

\* The HttpApi construct: an API named name with the routes of route_list,
\* each a method and a path.
Routes ==
    { [method |-> "GET", path |-> "api1"],
      [method |-> "POST", path |-> "api2"],
      [method |-> "GET", path |-> "api2"] }

RouteLists ==
    { rl \in UNION {[1..n -> Routes] : n \in 0..MaxRoutes} :
          \A i, j \in 1..Len(rl) : rl[i] = rl[j] => i = j }

HttpApi(name, route_list) ==
    [kind |-> "Construct", title |-> name, type |-> "HttpApi", props |-> "",
     route_list |-> route_list]

RawResources == {queue1, queue2}

Constructs == {fun, empty, broken}

Items == RawResources \cup Constructs

Elements == Items \cup {StackRef(t) : t \in Stacks}

isinstance(x, cls) == x.kind = cls

(***************************************************************************)
(* Construct: the three capabilities of the concrete constructs above.     *)
(***************************************************************************)
\* Construct.resources(stack) raises for the broken construct.
resources_raises(construct) == construct = broken

\* HttpApi.resources(stack): the log group, the API, its default stage,
\* the integration, and a route and a lambda permission for every route.
HttpApi_resources(construct, stack) ==
    LET id == name_to_id(construct.title)
        rl == construct.route_list
        of_route(r, what) == id \o <<r.method, r.path, what>>
    IN  << AWSObj(id \o <<"LogGroup">>, "AWS::Logs::LogGroup", "log"),
           AWSObj(id, "AWS::ApiGatewayV2::Api", "HTTP"),
           AWSObj(id \o <<"DefaultStage">>, "AWS::ApiGatewayV2::Stage",
                  "$default"),
           AWSObj(id \o <<"Integration">>, "AWS::ApiGatewayV2::Integration",
                  "AWS_PROXY") >>
        \o [i \in 1..(2 * Len(rl)) |->
               IF i % 2 = 1
               THEN AWSObj(of_route(rl[(i + 1) \div 2], "Route"),
                           "AWS::ApiGatewayV2::Route", "NONE")
               ELSE AWSObj(of_route(rl[i \div 2], "LambdaPermission"),
                           "AWS::Lambda::Permission", "lambda:InvokeFunction")]

\* The identifier of the function: name_to_id of its name.
fun_id == name_to_id(fun.title)

\* Construct.resources(stack): the function is staged in the bucket of the
\* stack it is expanded for.
resources(construct, stack) ==
    IF construct.type = "HttpApi"
    THEN HttpApi_resources(construct, stack)
    ELSE IF construct = fun
    THEN << AWSObj(fun_id, "AWS::Lambda::Function",
                   s3_bucket[stack]),
            AWSObj(fun_id \o <<"b">>,
                   "AWS::Logs::LogGroup", "lg") >>
    ELSE <<>>

\* PolicyDocument(statements)
PolicyDocument(statements) == statements

\* PolicyDocument_add, leaving out the statements of the right operand that
\* the left one holds.
PolicyDocument_add_unique(a, b) ==
    a \o SelectSeq(b, LAMBDA s : \A i \in 1..Len(a) : a[i] # s)

\* PolicyDocument.__add__: the statements of the left operand followed by
\* the statements of the right one.
PolicyDocument_add(a, b) == a \o b

Statement(action, resource) == [action |-> action, resource |-> resource]

\* Construct.cfn_policy_document(stack): the default is the empty document;
\* fun and broken override it.
Construct_cfn_policy_document(construct, stack) ==
    IF construct = fun
    THEN PolicyDocument(<< Statement("lambda:CreateFunction", stack),
                           Statement("s3:GetObject", s3_bucket[stack]) >>)
    ELSE IF construct = broken
    THEN PolicyDocument(<< Statement("iam:PassRole", stack) >>)
    ELSE PolicyDocument(<<>>)

\* Construct.create_data_dir(root_dir), the files it puts in root_dir: the
\* default puts none and cannot fail, fun stages its code, which fails
\* when the file cannot be written.
writes_data(construct) == construct = fun

Construct_create_data_dir(construct, root_dir) ==
    IF construct = fun
    THEN << [dir |-> root_dir, name |-> construct.title] >>
    ELSE <<>>

(***************************************************************************)
(* troposphere.Template                                                    *)
(***************************************************************************)
Entry(k, v) == [key |-> k, value |-> v]

Keys(d) == {d[i].key : i \in 1..Len(d)}

\* d[k]
DictGet(d, k) == d[CHOOSE i \in 1..Len(d) : d[i].key = k].value

\* d[k] = v: a new key is appended, an existing key keeps its position.
DictSet(d, k, v) ==
    IF k \in Keys(d)
    THEN [i \in 1..Len(d) |-> IF d[i].key = k THEN Entry(k, v) ELSE d[i]]
    ELSE Append(d, Entry(k, v))

\* add_resource, a duplicate title silently replacing the earlier value.
RECURSIVE add_resource_overwrite(_, _)
add_resource_overwrite(d, values) ==
    IF values = <<>> THEN [resources |-> d, raised |-> "none"]
    ELSE add_resource_overwrite(DictSet(d, Head(values).title, Head(values)),
                                Tail(values))

\* add_resource, a duplicate title being skipped without an exception.
RECURSIVE add_resource_skip(_, _)
add_resource_skip(d, values) ==
    IF values = <<>> THEN [resources |-> d, raised |-> "none"]
    ELSE IF Head(values).title \in Keys(d)
         THEN add_resource_skip(d, Tail(values))
         ELSE add_resource_skip(DictSet(d, Head(values).title, Head(values)),
                                Tail(values))

\* Template.add_resource(values) for a list: for v in values, a title that
\* is already a key raises ValueError, otherwise d[v.title] = v.
RECURSIVE add_resource(_, _)
add_resource(d, values) ==
    IF values = <<>> THEN [resources |-> d, raised |-> "none"]
    ELSE IF Head(values).title \in Keys(d)
         THEN [resources |-> d, raised |-> "ValueError"]
         ELSE add_resource(DictSet(d, Head(values).title, Head(values)),
                           Tail(values))

\* AWSObject.to_dict
AWSObject_to_dict(r) == [Type |-> r.type, Properties |-> r.props]

\* Template.to_dict: the template's own description is never set, so the
\* result has the single key Resources, in insertion order.
Template_to_dict(d) ==
    [Resources |-> [i \in 1..Len(d) |->
                       Entry(d[i].key, AWSObject_to_dict(d[i].value))]]

(***************************************************************************)
(* Stack                                                                   *)
(***************************************************************************)
Call(method, construct, arg) ==
    [method |-> method, construct |-> construct, arg |-> arg]

Queries == {"export", "cfn_policy_document", "getitem", "create_data_dir"}

\* The record of a call: its receiver, argument, the calls it has made on
\* constructs, its result and the exception it has raised, whether it
\* repeats the query before it, is chained to the add before it, or is an
\* add that follows a query.
Last(op, stack, arg, invoked, result, raised) ==
    [op |-> op, stack |-> stack, arg |-> arg, invoked |-> invoked,
     result |-> result, raised |-> raised,
     repeat |-> op \in {"export", "cfn_policy_document"}
                /\ last.op = op /\ last.stack = stack,
     chained |-> FALSE,
     after_query |-> op = "add" /\ last.op \in Queries]

\* Stack.__init__: two empty stacks; the scalar metadata is given by the
\* caller, who gives both stacks the same description and each its bucket.
Descriptions == {None, "", "a stack"}

Init ==
    /\ constructs = [s \in Stacks |-> <<>>]
    /\ template = [s \in Stacks |-> <<>>]
    /\ description \in {[s \in Stacks |-> d] : d \in Descriptions}
    /\ s3_bucket = [s \in Stacks |-> IF s = "A" THEN "bucketA" ELSE "bucketB"]
    /\ list_of = [s \in Stacks |-> s]
    /\ last = [op |-> "init", stack |-> None, arg |-> None, invoked |-> <<>>,
               result |-> None, raised |-> "none", repeat |-> FALSE,
               chained |-> FALSE, after_query |-> FALSE]
    /\ nadds = 0

\* batch_of, taking the expanded resources of an added stack's template.
batch_of_template(element) ==
    IF isinstance(element, "Stack")
    THEN [i \in 1..Len(template[element.title[1]]) |->
             template[element.title[1]][i].value]
    ELSE <<element>>

\* Stack.add, the batch: the constructs list of an added stack, or the
\* element alone.
batch_of(element) ==
    IF isinstance(element, "Stack")
    THEN constructs[element.title[1]]
    ELSE <<element>>

\* self.constructs += constructs
extend(old, batch) == old \o batch

\* The list the loop of Stack.add goes over.  For a stack element it is
\* the list object element.constructs, which is self.constructs, already
\* extended, when a stack is added to itself.
looped_list(self, element) ==
    IF element = StackRef(self)
    THEN extend(constructs[self], batch_of(element))
    ELSE batch_of(element)

\* loop_body, putting what the item adds in front of the resources
\* collected so far.
loop_body_front(construct, stack, res) ==
    LET res1 == IF isinstance(construct, "Construct")
                THEN resources(construct, stack) \o res
                ELSE res
    IN  IF isinstance(construct, "AWSObject")
        THEN <<construct>> \o res1
        ELSE res1

\* loop_body, appending the item itself whatever its class.
loop_body_all(construct, stack, res) ==
    LET res1 == IF isinstance(construct, "Construct")
                THEN res \o resources(construct, stack)
                ELSE res
    IN  Append(res1, construct)

\* loop_body, testing for a raw resource only among the constructs.
loop_body_nested(construct, stack, res) ==
    IF isinstance(construct, "Construct")
    THEN LET res1 == res \o resources(construct, stack)
         IN  IF isinstance(construct, "AWSObject")
             THEN Append(res1, construct)
             ELSE res1
    ELSE res

\* The body of the loop of Stack.add: what one item adds to the resources
\* collected so far.
loop_body(construct, stack, res) ==
    LET res1 == IF isinstance(construct, "Construct")
                THEN res \o resources(construct, stack)
                ELSE res
    IN  IF isinstance(construct, "AWSObject")
        THEN Append(res1, construct)
        ELSE res1

\* The loop of Stack.add: the resources collected and the resources() calls
\* made, until the list ends or a call raises.
RECURSIVE expand(_, _, _, _)
expand(batch, stack, res, invoked) ==
    IF batch = <<>>
    THEN [resources |-> res, invoked |-> invoked, raised |-> "none"]
    ELSE LET construct == Head(batch)
             called == IF isinstance(construct, "Construct")
                       THEN Append(invoked, Call("resources", construct, stack))
                       ELSE invoked
         IN  IF isinstance(construct, "Construct") /\ resources_raises(construct)
             THEN [resources |-> res, invoked |-> called,
                   raised |-> "ExpansionFailure"]
             ELSE expand(Tail(batch), stack,
                         loop_body(construct, stack, res), called)

\* update_template, inserting what the loop has collected also when the
\* loop was left by an exception.
update_template_partial(d, e) ==
    LET t == add_resource(d, e.resources)
    IN  [resources |-> t.resources,
         raised |-> IF e.raised = "none" THEN t.raised ELSE e.raised]

\* self.template.add_resource(resources), reached only when the loop has
\* ended without an exception.
update_template(d, e) ==
    IF e.raised = "none"
    THEN add_resource(d, e.resources)
    ELSE [resources |-> d, raised |-> e.raised]

\* provenance, the batch being appended once the loop has ended.
provenance_after_loop(old, batch, e) ==
    IF e.raised = "ExpansionFailure" THEN old ELSE extend(old, batch)

\* The constructs list after Stack.add: the batch is appended before the
\* loop, whatever the loop does.
provenance(old, batch, e) == extend(old, batch)

\* list_after_add, an empty stack taking over the list of an added stack.
list_after_add_adopted(self, element) ==
    IF isinstance(element, "Stack") /\ constructs[self] = <<>>
    THEN list_of[element.title[1]]
    ELSE list_of[self]

\* The list object self.constructs is bound to after +=: the list that
\* has been extended in place.
list_after_add(self, element) == list_of[self]

\* add_result, an added stack being returned.
add_result_element(self, element) ==
    IF isinstance(element, "Stack") THEN element.title[1] ELSE self

\* return self
add_result(self, element) == self

\* The body of Stack.add(element), called on self; chained tells that self
\* is the value the preceding add has returned.
add_body(self, element, chained) ==
    /\ nadds < MaxAdds
    /\ LET e == expand(looped_list(self, element), self, <<>>, <<>>)
           t == update_template(template[self], e)
           c == provenance(constructs[self], batch_of(element), e)
       IN  /\ constructs' = [s \in Stacks |->
                                IF list_of[s] = list_of[self]
                                THEN c ELSE constructs[s]]
           /\ list_of' = [list_of EXCEPT
                             ![self] = list_after_add(self, element)]
           /\ template' = [template EXCEPT ![self] = t.resources]
           /\ last' = [Last("add", self, element, e.invoked,
                            IF t.raised = "none"
                            THEN add_result(self, element) ELSE None,
                            t.raised)
                       EXCEPT !.chained = chained]
    /\ nadds' = nadds + 1
    /\ UNCHANGED <<description, s3_bucket>>

\* add, refused once the stack has been exported.
add_sealed(self, element) ==
    /\ last.op # "export"
    /\ add_body(self, element, FALSE)

\* Stack.add(element)
add(self, element) == add_body(self, element, FALSE)

\* stack.add(x).add(element): add called on the value the preceding add
\* has returned.
add_chained(element) ==
    /\ last.op = "add" /\ last.raised = "none"
    /\ add_body(last.result, element, TRUE)

\* policy_step, the construct's document put in front of the sum.
policy_step_front(result, construct, stack) ==
    IF isinstance(construct, "Construct")
    THEN PolicyDocument_add(Construct_cfn_policy_document(construct, stack),
                            result)
    ELSE result

\* The body of the loop of Stack.cfn_policy_document.
policy_step(result, construct, stack) ==
    IF isinstance(construct, "Construct")
    THEN PolicyDocument_add(result,
                            Construct_cfn_policy_document(construct, stack))
    ELSE result

\* The loop of Stack.cfn_policy_document: the sum of the documents and the
\* calls made to obtain them.
RECURSIVE policy_loop(_, _, _, _)
policy_loop(cs, stack, result, invoked) ==
    IF cs = <<>> THEN [result |-> result, invoked |-> invoked]
    ELSE policy_loop(Tail(cs), stack, policy_step(result, Head(cs), stack),
             IF isinstance(Head(cs), "Construct")
             THEN Append(invoked,
                         Call("cfn_policy_document", Head(cs), stack))
             ELSE invoked)

\* Stack.cfn_policy_document()
cfn_policy_document(self) ==
    /\ LET r == policy_loop(constructs[self], self, PolicyDocument(<<>>), <<>>)
       IN  last' = Last("cfn_policy_document", self, None, r.invoked,
                        r.result, "none")
    /\ UNCHANGED <<constructs, template, description, s3_bucket, list_of, nadds>>

\* The names looked up: "AB", "a-b" and "-".
LookupNames == { <<"A", "B">>, <<"a", "-", "b">>, <<"-">> }

\* lookup_key, the name being used as it is.
lookup_key_raw(resource_name) == resource_name

\* The key Stack.__getitem__ looks up.
lookup_key(resource_name) == name_to_id(resource_name)

\* getitem, taking the resource it returns out of the template.
getitem_popping(self, resource_name) ==
    /\ LET key == lookup_key(resource_name)
       IN  /\ last' = IF key \in Keys(template[self])
                      THEN Last("getitem", self, resource_name, <<>>,
                                DictGet(template[self], key), "none")
                      ELSE Last("getitem", self, resource_name, <<>>,
                                None, "KeyError")
           /\ template' = [template EXCEPT ![self] =
                               SelectSeq(@, LAMBDA e : e.key # key)]
    /\ UNCHANGED <<constructs, description, s3_bucket, list_of, nadds>>

\* Stack.__getitem__(resource_name)
getitem(self, resource_name) ==
    /\ LET key == lookup_key(resource_name)
       IN  last' = IF key \in Keys(template[self])
                   THEN Last("getitem", self, resource_name, <<>>,
                             DictGet(template[self], key), "none")
                   ELSE Last("getitem", self, resource_name, <<>>,
                             None, "KeyError")
    /\ UNCHANGED <<constructs, template, description, s3_bucket, list_of, nadds>>

\* export_dict, expanding the constructs anew at the time of the export.
export_dict_fresh(self) ==
    LET fresh == add_resource(<<>>, expand(constructs[self], self,
                                           <<>>, <<>>).resources)
        result == Template_to_dict(fresh.resources)
    IN  IF description[self] # None
        THEN [Resources |-> result.Resources, Description |-> description[self]]
        ELSE result

\* export_dict, the description being tested for truth.
export_dict_truthy(self) ==
    LET result == Template_to_dict(template[self])
    IN  IF description[self] \notin {None, ""}
        THEN [Resources |-> result.Resources, Description |-> description[self]]
        ELSE result

\* The value Stack.export returns.
export_dict(self) ==
    LET result == Template_to_dict(template[self])
    IN  IF description[self] # None
        THEN [Resources |-> result.Resources, Description |-> description[self]]
        ELSE result

\* export, handing the resources over: the template is empty afterwards.
export_moving(self) ==
    /\ last' = Last("export", self, None, <<>>, export_dict(self), "none")
    /\ template' = [template EXCEPT ![self] = <<>>]
    /\ UNCHANGED <<constructs, description, s3_bucket, list_of, nadds>>

\* Stack.export()
export(self) ==
    /\ last' = Last("export", self, None, <<>>, export_dict(self), "none")
    /\ UNCHANGED <<constructs, template, description, s3_bucket, list_of, nadds>>

RootDirs == {"/tmp/data"}

\* The test of the loop of Stack.create_data_dir.
stages_all(construct) == TRUE

stages(construct) == isinstance(construct, "Construct")

\* data_dir_loop, going on with the next construct after a failure.
RECURSIVE data_dir_loop_on(_, _, _, _, _, _)
data_dir_loop_on(cs, root_dir, fail_at, i, invoked, written) ==
    IF i > Len(cs)
    THEN [invoked |-> invoked, written |-> written,
          raised |-> IF fail_at = 0 THEN "none" ELSE "StagingIOFailure"]
    ELSE IF ~stages(cs[i])
    THEN data_dir_loop_on(cs, root_dir, fail_at, i + 1, invoked, written)
    ELSE LET called == Append(invoked,
                              Call("create_data_dir", cs[i], root_dir))
         IN  IF i = fail_at
             THEN data_dir_loop_on(cs, root_dir, fail_at, i + 1, called,
                                   written)
             ELSE data_dir_loop_on(cs, root_dir, fail_at, i + 1, called,
                      written \o Construct_create_data_dir(cs[i], root_dir))

\* The loop of Stack.create_data_dir from the i-th item of the list on:
\* Construct.create_data_dir is called on every construct, in order, until
\* the list ends or the call on the item fail_at raises; the calls made and
\* the files they have put in root_dir.
RECURSIVE data_dir_loop(_, _, _, _, _, _)
data_dir_loop(cs, root_dir, fail_at, i, invoked, written) ==
    IF i > Len(cs)
    THEN [invoked |-> invoked, written |-> written, raised |-> "none"]
    ELSE IF ~stages(cs[i])
    THEN data_dir_loop(cs, root_dir, fail_at, i + 1, invoked, written)
    ELSE LET called == Append(invoked,
                              Call("create_data_dir", cs[i], root_dir))
         IN  IF i = fail_at
             THEN [invoked |-> called, written |-> written,
                   raised |-> "StagingIOFailure"]
             ELSE data_dir_loop(cs, root_dir, fail_at, i + 1, called,
                      written \o Construct_create_data_dir(cs[i], root_dir))

\* Stack.create_data_dir(root_dir).  fail_at is the position in constructs
\* of the construct that fails to write its data, 0 when none does.  The
\* method returns nothing: the result recorded is the files the call has
\* put in root_dir.
create_data_dir(self, root_dir, fail_at) ==
    /\ \/ fail_at = 0
       \/ /\ fail_at \in 1..Len(constructs[self])
          /\ writes_data(constructs[self][fail_at])
    /\ LET r == data_dir_loop(constructs[self], root_dir, fail_at, 1,
                              <<>>, <<>>)
       IN  last' = Last("create_data_dir", self, root_dir, r.invoked,
                        r.written, r.raised)
    /\ UNCHANGED <<constructs, template, description, s3_bucket, list_of, nadds>>

Next ==
    \/ \E s \in Stacks, element \in Elements : add(s, element)
    \/ \E element \in Elements : add_chained(element)
    \/ \E s \in Stacks : cfn_policy_document(s)
    \/ \E s \in Stacks, name \in LookupNames : getitem(s, name)
    \/ \E s \in Stacks : export(s)
    \/ \E s \in Stacks, root_dir \in RootDirs :
           \E fail_at \in 0..Len(constructs[s]) :
               create_data_dir(s, root_dir, fail_at)

Spec == Init /\ [][Next]_vars

\* The end-to-end scenarios: one stack, to which raw resources, the
\* function and HttpApi constructs are added one by one, and which is
\* exported.
ScenarioElements ==
    {bucket, topic, queue1, queue2, fun}
    \cup {HttpApi(<<"b">>, rl) : rl \in RouteLists}

NextScenario ==
    \/ \E element \in ScenarioElements : add("A", element)
    \/ export("A")

SpecScenario == Init /\ [][NextScenario]_vars

\* PolicyDocument combination on its own: the operands are three documents
\* of at most MaxDocLen statements, and combine computes their sums.
DocStatements ==
    { Statement("s3:GetObject", "bucketA"), Statement("iam:PassRole", "A") }

Documents ==
    UNION { {PolicyDocument(d) : d \in [1..n -> DocStatements]} :
               n \in 0..MaxDocLen }

InitDoc ==
    /\ constructs = [s \in Stacks |-> <<>>]
    /\ template = [s \in Stacks |-> <<>>]
    /\ description = [s \in Stacks |-> None]
    /\ s3_bucket = [s \in Stacks |-> IF s = "A" THEN "bucketA" ELSE "bucketB"]
    /\ list_of = [s \in Stacks |-> s]
    /\ last \in {[op |-> "operands", stack |-> None, arg |-> <<a, b, c>>,
                  invoked |-> <<>>, result |-> None, raised |-> "none",
                  repeat |-> FALSE, chained |-> FALSE,
                  after_query |-> FALSE] : a, b, c \in Documents}
    /\ nadds = 0

combine ==
    /\ last.op = "operands"
    /\ LET a == last.arg[1]
           b == last.arg[2]
           c == last.arg[3]
       IN  last' = [last EXCEPT
               !.op = "combine",
               !.result =
                   [sum |-> PolicyDocument_add(a, b),
                    left |-> PolicyDocument_add(PolicyDocument_add(a, b), c),
                    right |-> PolicyDocument_add(a, PolicyDocument_add(b, c)),
                    empty_right |->
                        PolicyDocument_add(a, PolicyDocument(<<>>)),
                    empty_left |->
                        PolicyDocument_add(PolicyDocument(<<>>), a)]]
    /\ UNCHANGED <<constructs, template, description, s3_bucket, list_of, nadds>>

NextDoc == combine

SpecDoc == InitDoc /\ [][NextDoc]_vars

\* Two runs side by side: the stacks A and B are given the same metadata at
\* construction and the same adds, each add made when both have the same
\* staging location; between the adds and after them the caller assigns
\* the staging location and the description of either stack.
Buckets == {"cfn_bucket", "bucketA"}

RunElements == {fun, queue1, bucket}

InitRuns ==
    /\ constructs = [s \in Stacks |-> <<>>]
    /\ template = [s \in Stacks |-> <<>>]
    /\ description \in {[s \in Stacks |-> d] : d \in Descriptions}
    /\ s3_bucket = [s \in Stacks |-> "cfn_bucket"]
    /\ list_of = [s \in Stacks |-> s]
    /\ last = [op |-> "init", stack |-> None, arg |-> None, invoked |-> <<>>,
               result |-> None, raised |-> "none", repeat |-> FALSE,
               chained |-> FALSE, after_query |-> FALSE]
    /\ nadds = 0

\* stack.s3_bucket = value
set_s3_bucket(self, value) ==
    /\ s3_bucket' = [s3_bucket EXCEPT ![self] = value]
    /\ last' = Last("set_s3_bucket", self, value, <<>>, None, "none")
    /\ UNCHANGED <<constructs, template, description, list_of, nadds>>

\* stack.description = value
set_description(self, value) ==
    /\ description' = [description EXCEPT ![self] = value]
    /\ last' = Last("set_description", self, value, <<>>, None, "none")
    /\ UNCHANGED <<constructs, template, s3_bucket, list_of, nadds>>

\* The same add in both runs, which have the same staging location.
add_runs(element) ==
    /\ nadds < MaxAdds
    /\ s3_bucket["A"] = s3_bucket["B"]
    /\ LET e(s) == expand(looped_list(s, element), s, <<>>, <<>>)
           t(s) == update_template(template[s], e(s))
       IN  /\ constructs' = [s \in Stacks |->
                                provenance(constructs[s], batch_of(element),
                                           e(s))]
           /\ template' = [s \in Stacks |-> t(s).resources]
           /\ last' = Last("add_runs", None, element, e("A").invoked,
                           None, t("A").raised)
    /\ nadds' = nadds + 1
    /\ UNCHANGED <<description, s3_bucket, list_of>>

\* export() in both runs.
export_runs ==
    /\ last' = Last("export_runs", None, None, <<>>,
                    [s \in Stacks |-> export_dict(s)], "none")
    /\ UNCHANGED <<constructs, template, description, s3_bucket, list_of, nadds>>

NextRuns ==
    \/ \E element \in RunElements : add_runs(element)
    \/ \E s \in Stacks, value \in Buckets : set_s3_bucket(s, value)
    \/ \E s \in Stacks, value \in Descriptions : set_description(s, value)
    \/ export_runs

SpecRuns == InitRuns /\ [][NextRuns]_vars

(***************************************************************************)
(* Properties                                                              *)
(***************************************************************************)
Values(d) == [i \in 1..Len(d) |-> d[i].value]

Titles(rs) == [i \in 1..Len(rs) |-> rs[i].title]

Range(f) == {f[i] : i \in DOMAIN f}

IsPrefix(p, q) == Len(p) <= Len(q) /\ SubSeq(q, 1, Len(p)) = p

\* The entries a step has appended to the template of stack s.
Inserted(s) ==
    SubSeq(template'[s], Len(template[s]) + 1, Len(template'[s]))

\* The expansion of a list of items for stack s: the resources of every
\* construct, expanded for s, and every raw resource itself.
RECURSIVE ExpansionOf(_, _)
ExpansionOf(cs, s) ==
    IF cs = <<>> THEN <<>>
    ELSE (IF isinstance(Head(cs), "Construct")
          THEN resources(Head(cs), s)
          ELSE <<Head(cs)>>) \o ExpansionOf(Tail(cs), s)

\* The step is a call a.add(b) of a stack b.
Merge(a, b) ==
    last'.op = "add" /\ last'.stack = a /\ last'.arg = StackRef(b)

\* C1: a.add(b), for stacks a and b, appends to a.constructs exactly the
\* items of b.constructs, in b's order, and the resources it inserts into
\* a's template are the items' expansion made for a (all of it when add
\* returns), whatever b's template holds.
C1_MergeTakesConstructsAndReexpands ==
    [][\A a, b \in Stacks :
          Merge(a, b) =>
              /\ constructs'[a] = constructs[a] \o constructs[b]
              /\ IsPrefix(template[a], template'[a])
              /\ IsPrefix(Values(Inserted(a)), ExpansionOf(constructs[b], a))
              /\ last'.raised = "none" =>
                     Values(Inserted(a)) = ExpansionOf(constructs[b], a)
              /\ \A i \in 1..Len(Inserted(a)) :
                     Inserted(a)[i].key = Inserted(a)[i].value.title]_vars

\* B holds the construct fun, expanded for B's bucket; A.add(B) has
\* returned, A.constructs holds fun and A's template its expansion for A's
\* bucket.
C1_Witness ==
    /\ last.op = "add" /\ last.stack = "A" /\ last.arg = StackRef("B")
    /\ last.raised = "none"
    /\ fun \in Range(constructs["B"]) /\ fun \in Range(constructs["A"])
    /\ <<"A", "B">> \in Keys(template["B"])
    /\ DictGet(template["B"], <<"A", "B">>).props = "bucketB"
    /\ <<"A", "B">> \in Keys(template["A"])
    /\ DictGet(template["A"], <<"A", "B">>).props = "bucketA"

NoDup(q) == \A i, j \in 1..Len(q) : q[i] = q[j] => i = j

\* The key order of export()["Resources"] for stack s.
ExportKeys(s) ==
    [i \in 1..Len(export_dict(s).Resources) |-> export_dict(s).Resources[i].key]

\* No two resources that the items of s.constructs expand to share an
\* identifier; then no add on s has met a naming collision.
NoCollision(s) == NoDup(Titles(ExpansionOf(constructs[s], s)))

\* No construct of s.constructs raises in resources().
NoFailure(s) ==
    \A i \in 1..Len(constructs[s]) :
        ~(isinstance(constructs[s][i], "Construct")
          /\ resources_raises(constructs[s][i]))

AddStep(s) == last'.op = "add" /\ last'.stack = s

\* The resources an add step on s hands to the template, when its loop has
\* not raised.
ToInsert(s) == ExpansionOf(looped_list(s, last'.arg), s)

\* rs[i] has the identifier of a key of d or of an earlier element of rs.
IsDup(d, rs, i) ==
    rs[i].title \in Keys(d) \cup {rs[j].title : j \in 1..(i - 1)}

HasDup(d, rs) == \E i \in 1..Len(rs) : IsDup(d, rs, i)

FirstDup(d, rs) ==
    CHOOSE i \in 1..Len(rs) :
        IsDup(d, rs, i) /\ \A j \in 1..(i - 1) : ~IsDup(d, rs, j)

\* The last resource of rs that has the identifier k.
LastWith(rs, k) ==
    rs[CHOOSE i \in 1..Len(rs) :
          rs[i].title = k /\ \A j \in (i + 1)..Len(rs) : rs[j].title # k]

\* The step is an add on s that inserts a resource whose identifier is
\* already a key of the template.
Collision(s) ==
    /\ AddStep(s)
    /\ last'.raised # "ExpansionFailure"
    /\ HasDup(template[s], ToInsert(s))

\* C3, as claimed: an add that inserts a resource whose identifier is already
\* a key returns without raising, the identifier then maps to the later
\* resource, and the colliding insertions add no entry.
C3_CollisionOverwritesAsClaimed ==
    [][\A s \in Stacks :
          Collision(s) =>
              /\ last'.raised = "none"
              /\ \A i \in 1..Len(ToInsert(s)) :
                     LET k == ToInsert(s)[i].title
                     IN  /\ k \in Keys(template'[s])
                         /\ DictGet(template'[s], k) = LastWith(ToInsert(s), k)
              /\ Cardinality(Keys(template'[s])) =
                     Cardinality(Keys(template[s])
                                 \cup Range(Titles(ToInsert(s))))
              /\ Len(template'[s]) = Cardinality(Keys(template'[s]))]_vars

\* C3, amended: an add that inserts a resource whose identifier is already
\* a key raises ValueError at that resource; the template keeps its entries,
\* the identifier still mapping to the earlier resource, followed by the
\* resources of the add that come before the duplicate, and nothing else.
C3_CollisionRaises ==
    [][\A s \in Stacks :
          Collision(s) =>
              LET rs == ToInsert(s)
                  n == FirstDup(template[s], rs)
              IN  /\ last'.raised = "ValueError"
                  /\ template'[s] =
                         template[s] \o
                         [i \in 1..(n - 1) |-> Entry(rs[i].title, rs[i])]
                  /\ Len(template'[s]) = Cardinality(Keys(template'[s]))]_vars

\* add(queue2) has raised on a stack whose template holds queue1 under the
\* same identifier, and still does.
C3_Witness ==
    /\ last.op = "add" /\ last.arg = queue2 /\ last.raised = "ValueError"
    /\ last.stack = "A"
    /\ <<"A", "b">> \in Keys(template["A"])
    /\ DictGet(template["A"], <<"A", "b">>) = queue1

\* The position in the looped list of the construct whose resources()
\* raised in this add step on s.
FailedAt(s) ==
    LET l == looped_list(s, last'.arg)
    IN  CHOOSE i \in 1..Len(l) :
            /\ isinstance(l[i], "Construct") /\ resources_raises(l[i])
            /\ \A j \in 1..(i - 1) :
                   ~(isinstance(l[j], "Construct") /\ resources_raises(l[j]))

\* The resources of the items that come before the failing construct.
Preceding(s) ==
    ExpansionOf(SubSeq(looped_list(s, last'.arg), 1, FailedAt(s) - 1), s)

\* The step is an add of a stack to s in which resources() has raised.
FailedMerge(s) ==
    /\ AddStep(s)
    /\ isinstance(last'.arg, "Stack")
    /\ last'.raised = "ExpansionFailure"

\* C4, as claimed: when resources() of a construct of a multi-item batch
\* raises, the resources of the items before it in the batch are in the
\* template after the failed add.
C4_EarlierItemsInsertedAsClaimed ==
    [][\A s \in Stacks :
          FailedMerge(s) =>
              \A i \in 1..Len(Preceding(s)) :
                  /\ Preceding(s)[i].title \in Keys(template'[s])
                  /\ DictGet(template'[s], Preceding(s)[i].title)
                         = Preceding(s)[i]]_vars

\* C4, amended: when resources() of a construct of a multi-item batch
\* raises, the failed add leaves the template as it was: no resource of the
\* batch is inserted, those of the items before the failing construct
\* included.
C4_FailedAddLeavesTemplate ==
    [][\A s \in Stacks :
          FailedMerge(s) => template'[s] = template[s]]_vars

\* A.add(B) has failed at the second construct of B; the template of A holds
\* nothing of the first.
C4_Witness ==
    /\ last.op = "add" /\ last.stack = "A" /\ last.arg = StackRef("B")
    /\ last.raised = "ExpansionFailure"
    /\ constructs["B"] = <<fun, broken>>
    /\ constructs["A"] = <<fun, broken>>
    /\ template["A"] = <<>>

\* The resources() calls that expanding each construct of cs once for
\* stack s makes.
ResourcesCalls(cs, s) ==
    LET c == SelectSeq(cs, LAMBDA x : isinstance(x, "Construct"))
    IN  [i \in 1..Len(c) |-> Call("resources", c[i], s)]

\* C5: an add on s whose loop is not left by an exception calls
\* resources(stack=s) once for every occurrence of a construct in the batch
\* (the element, or the constructs list the added stack held at the call),
\* in order, and export, cfn_policy_document, lookup and create_data_dir
\* never call resources().
C5_ResourcesCalledOncePerConstruct ==
    [][/\ \A s \in Stacks :
              (AddStep(s) /\ last'.raised # "ExpansionFailure") =>
                  last'.invoked = ResourcesCalls(batch_of(last'.arg), s)
       /\ last'.op \in {"export", "cfn_policy_document", "getitem",
                        "create_data_dir"} =>
              \A i \in 1..Len(last'.invoked) :
                  last'.invoked[i].method # "resources"]_vars

\* The sum, in constructs order, of the policy documents of the constructs
\* of cs for stack s.
RECURSIVE PolicySum(_, _)
PolicySum(cs, s) ==
    IF cs = <<>> THEN <<>>
    ELSE (IF isinstance(Head(cs), "Construct")
          THEN Construct_cfn_policy_document(Head(cs), s)
          ELSE <<>>) \o PolicySum(Tail(cs), s)

\* C6: cfn_policy_document() returns the concatenation, in constructs order,
\* of cfn_policy_document(stack=self) of every construct of constructs; raw
\* resources and empty documents add nothing.
C6_PolicyDocumentIsSum ==
    last.op = "cfn_policy_document" =>
        /\ last.result = PolicySum(constructs[last.stack], last.stack)
        /\ last.invoked =
               LET c == SelectSeq(constructs[last.stack],
                                  LAMBDA x : isinstance(x, "Construct"))
               IN  [i \in 1..Len(c) |->
                       Call("cfn_policy_document", c[i], last.stack)]

\* cfn_policy_document() has returned the two statements of fun for a stack
\* that also holds a raw resource and a construct with an empty document.
C6_Witness ==
    /\ last.op = "cfn_policy_document"
    /\ {fun, empty} \subseteq Range(constructs[last.stack])
    /\ Range(constructs[last.stack]) \cap RawResources # {}
    /\ Len(last.result) = 2
    /\ last.result = Construct_cfn_policy_document(fun, last.stack)

\* C7: export() called twice in a row on a stack, or cfn_policy_document()
\* called twice in a row, returns equal results.
C7_RepeatedCallAgrees ==
    [][(/\ last'.op \in {"export", "cfn_policy_document"}
        /\ last.op = last'.op
        /\ last.stack = last'.stack) => last'.result = last.result]_vars

\* export() has been called a second time in a row on a stack whose
\* template holds resources.
C7_Witness ==
    /\ last.op = "export" /\ last.repeat
    /\ template[last.stack] # <<>>
    /\ last.result = export_dict(last.stack)

\* C8: stack[name] returns the resource the template holds under
\* name_to_id(name), which is the resource export lists under that key, and
\* no resource held under another key; it raises KeyError when the
\* template has no such key.
C8_LookupByNormalizedName ==
    last.op = "getitem" =>
        LET d == template[last.stack]
            key == name_to_id(last.arg)
        IN  IF \E i \in 1..Len(d) : d[i].key = key
            THEN /\ last.raised = "none"
                 /\ \E i \in 1..Len(d) :
                        /\ d[i].key = key
                        /\ d[i].value = last.result
                        /\ export_dict(last.stack).Resources[i] =
                               Entry(key, AWSObject_to_dict(last.result))
                 /\ \A j \in 1..Len(d) :
                        d[j].value = last.result => d[j].key = key
            ELSE last.raised = "KeyError"

\* stack["a-b"] has returned the function held under "AB".
C8_Witness ==
    /\ last.op = "getitem" /\ last.arg = <<"a", "-", "b">>
    /\ last.raised = "none"
    /\ last.result.title = <<"A", "B">>
    /\ last.result.type = "AWS::Lambda::Function"

\* C9: the result of export() has the key Resources, holding exactly the
\* entries of the template, and has the key Description exactly when the
\* description of the stack is not None, with the description as value.
C9_ExportShape ==
    last.op = "export" =>
        LET d == template[last.stack]
            r == last.result
        IN  /\ "Resources" \in DOMAIN r
            /\ DOMAIN r \subseteq {"Resources", "Description"}
            /\ Len(r.Resources) = Len(d)
            /\ \A i \in 1..Len(d) :
                   r.Resources[i] =
                       Entry(d[i].key, [Type |-> d[i].value.type,
                                        Properties |-> d[i].value.props])
            /\ "Description" \in DOMAIN r <=> description[last.stack] # None
            /\ description[last.stack] # None =>
                   r.Description = description[last.stack]

\* export() has returned the description and the resources of a described
\* stack.
C9_Witness ==
    /\ last.op = "export"
    /\ description[last.stack] = "a stack"
    /\ last.result.Description = "a stack"
    /\ Len(last.result.Resources) = 3

\* C10: in every step constructs is extended at its end, every identifier
\* of the template stays in it, and keeps mapping to the same resource.
C10_GrowsWriteOnce ==
    [][\A s \in Stacks :
          /\ IsPrefix(constructs[s], constructs'[s])
          /\ \A k \in Keys(template[s]) :
                 /\ k \in Keys(template'[s])
                 /\ DictGet(template'[s], k) = DictGet(template[s], k)]_vars

\* A second add on a stack has extended constructs and the template, the
\* first resource still in its place.
C10_Witness ==
    /\ last.op = "add" /\ last.stack = "B" /\ last.raised = "none"
    /\ constructs["B"] = <<queue2, fun>>
    /\ Len(template["B"]) = 3
    /\ DictGet(template["B"], <<"A", "b">>) = queue2

\* The create_data_dir calls that staging each construct of cs once in
\* root_dir makes.
DataDirCalls(cs, root_dir) ==
    LET c == SelectSeq(cs, LAMBDA x : isinstance(x, "Construct"))
    IN  [i \in 1..Len(c) |-> Call("create_data_dir", c[i], root_dir)]

\* C11: Stack.create_data_dir(root_dir) calls create_data_dir(root_dir) on
\* the constructs of constructs in their order, never twice for an
\* occurrence, never with another directory and never on a raw resource,
\* and a call that returns has called it once for every occurrence.
C11_DataDirOncePerConstruct ==
    last.op = "create_data_dir" =>
        LET all == DataDirCalls(constructs[last.stack], last.arg)
        IN  /\ IsPrefix(last.invoked, all)
            /\ last.raised = "none" => last.invoked = all

\* create_data_dir has returned for a stack that holds a raw resource
\* between two constructs, which it has called in their order.
C11_Witness ==
    /\ last.op = "create_data_dir" /\ last.raised = "none"
    /\ constructs[last.stack] = <<fun, queue1, empty>>
    /\ Len(last.invoked) = 2
    /\ last.invoked[1].construct = fun /\ last.invoked[2].construct = empty
    /\ last.invoked[1].arg = "/tmp/data"

\* The entries of the type ty among the entries es.
OfType(es, ty) == SelectSeq(es, LAMBDA e : e.value.type = ty)

\* C12: an add of an HttpApi construct with k routes that returns has
\* inserted 4 + 2k resources: one API, one log group, one stage, one
\* integration, k routes and k lambda permissions, one for every route.
C12_HttpApiResourceCount ==
    [][\A s \in Stacks :
          (AddStep(s) /\ last'.arg.type = "HttpApi" /\ last'.raised = "none")
          =>
              LET rl == last'.arg.route_list
                  k == Len(rl)
                  new == Inserted(s)
              IN  /\ IsPrefix(template[s], template'[s])
                  /\ Len(new) = 4 + 2 * k
                  /\ Len(OfType(new, "AWS::ApiGatewayV2::Api")) = 1
                  /\ Len(OfType(new, "AWS::Logs::LogGroup")) = 1
                  /\ Len(OfType(new, "AWS::ApiGatewayV2::Stage")) = 1
                  /\ Len(OfType(new, "AWS::ApiGatewayV2::Integration")) = 1
                  /\ Len(OfType(new, "AWS::ApiGatewayV2::Route")) = k
                  /\ Len(OfType(new, "AWS::Lambda::Permission")) = k
                  /\ \A i \in 1..k :
                         \E j \in 1..Len(new) :
                             /\ new[j].value.type = "AWS::Lambda::Permission"
                             /\ new[j].key =
                                    name_to_id(last'.arg.title) \o
                                    <<rl[i].method, rl[i].path,
                                      "LambdaPermission">>]_vars

\* The function, then an HttpApi with two routes have been added: the
\* template holds the two resources of the function and eight of the API.
C12_Witness ==
    /\ last.op = "add" /\ last.raised = "none" /\ last.stack = "A"
    /\ last.arg.type = "HttpApi" /\ Len(last.arg.route_list) = 2
    /\ constructs["A"] = <<fun, last.arg>>
    /\ Len(template["A"]) = 10
    /\ Len(OfType(template["A"], "AWS::Lambda::Permission")) = 2

\* C13: when constructs holds n raw resources with pairwise distinct
\* identifiers, each added by an add of its own, export()["Resources"] has
\* n entries, its keys are the identifiers of these resources, and the
\* value under a key is the type and the properties of the resource with
\* that identifier.
C13_RawResourcesExported ==
    \A s \in Stacks :
        LET cs == constructs[s]
            rs == export_dict(s).Resources
        IN  (/\ \A i \in 1..Len(cs) : isinstance(cs[i], "AWSObject")
             /\ NoDup(Titles(cs)))
            =>
                /\ Len(rs) = Len(cs)
                /\ {rs[i].key : i \in 1..Len(rs)} = Range(Titles(cs))
                /\ \A i \in 1..Len(cs) :
                       \E j \in 1..Len(rs) :
                           /\ rs[j].key = cs[i].title
                           /\ rs[j].value = [Type |-> cs[i].type,
                                             Properties |-> cs[i].props]

\* A bucket and a queue have been added by two adds and export has
\* returned two entries, under their identifiers.
C13_Witness ==
    /\ last.op = "export" /\ last.stack = "A"
    /\ constructs["A"] = <<bucket, queue1>>
    /\ Len(last.result.Resources) = 2
    /\ last.result.Resources[1].key = <<"B", "a">>
    /\ last.result.Resources[2].value.Type = "AWS::SQS::Queue"

\* C14: add returns the stack it was called on, and an add called on the
\* result of an add has the effect, and the outcome, of the same add called
\* on that stack.
C14_AddReturnsSelf ==
    [][/\ (last'.op = "add" /\ last'.raised = "none") =>
              last'.result = last'.stack
       /\ (last'.op = "add" /\ last'.chained) =>
              LET s == last.stack
                  e == expand(looped_list(s, last'.arg), s, <<>>, <<>>)
                  t == update_template(template[s], e)
              IN  /\ last'.stack = s
                  /\ constructs' = [constructs EXCEPT ![s] =
                                       @ \o batch_of(last'.arg)]
                  /\ template' = [template EXCEPT ![s] = t.resources]
                  /\ last'.raised = t.raised]_vars

\* s.add(fun).add(queue1) has returned s, which holds both elements.
C14_Witness ==
    /\ last.op = "add" /\ last.chained /\ last.raised = "none"
    /\ last.arg = queue1 /\ last.result = last.stack
    /\ constructs[last.stack] = <<fun, queue1>>
    /\ Len(template[last.stack]) = 3

\* C15: a + b holds the statements of a, in their order, followed by those
\* of b, in their order, whether or not a statement occurs twice; so
\* (a + b) + c = a + (b + c), and a + empty = a = empty + a.
C15_CombinationIsConcatenation ==
    last.op = "combine" =>
        LET a == last.arg[1]
            b == last.arg[2]
            r == last.result
        IN  /\ Len(r.sum) = Len(a) + Len(b)
            /\ \A i \in 1..Len(a) : r.sum[i] = a[i]
            /\ \A i \in 1..Len(b) : r.sum[Len(a) + i] = b[i]
            /\ r.left = r.right
            /\ r.empty_right = a
            /\ r.empty_left = a

\* A document of two different statements has been combined with itself:
\* the sum holds the four statements.
C15_Witness ==
    /\ last.op = "combine"
    /\ Len(last.arg[1]) = 2 /\ last.arg[1][1] # last.arg[1][2]
    /\ last.arg[2] = last.arg[1]
    /\ last.arg[3] # <<>>
    /\ Len(last.result.sum) = 4
    /\ Len(last.result.left) = 4 + Len(last.arg[3])

\* C16: export, cfn_policy_document, the lookup, found or not, and
\* create_data_dir leave constructs, the template and the scalar metadata
\* of every stack as they were.
C16_QueriesChangeNothing ==
    [][last'.op \in Queries =>
          UNCHANGED <<constructs, template, description, s3_bucket>>]_vars

\* A lookup has returned a resource of a template that still holds its
\* three resources.
C16_Witness ==
    /\ last.op = "getitem" /\ last.raised = "none"
    /\ constructs[last.stack] = <<fun, queue1>>
    /\ Len(template[last.stack]) = 3
    /\ \E i \in 1..3 : template[last.stack][i].value = last.result

\* q ends with p.
IsSuffix(p, q) ==
    Len(p) <= Len(q) /\ SubSeq(q, Len(q) - Len(p) + 1, Len(q)) = p

\* C17: a stack is never sealed.  After a query on a stack, add of any
\* element is accepted on it; an add that follows a query extends
\* constructs and the template as any add does; and the export or
\* cfn_policy_document that follows it includes what the added element
\* contributes.
C17_NeverSealed ==
    /\ []((last.op \in Queries /\ nadds < MaxAdds) =>
              \A element \in Elements : ENABLED add(last.stack, element))
    /\ [][\A s \in Stacks :
             (AddStep(s) /\ last'.after_query) =>
                 /\ constructs'[s] = constructs[s] \o batch_of(last'.arg)
                 /\ last'.raised = "none" =>
                        Values(template'[s]) =
                            Values(template[s]) \o ToInsert(s)]_vars
    /\ [][(/\ last.op = "add" /\ last.after_query /\ last.raised = "none"
           /\ last'.stack = last.stack) =>
             LET s == last.stack
                 batch == batch_of(last.arg)
                 added == ExpansionOf(batch, s)
             IN  /\ last'.op = "export" =>
                        \A i \in 1..Len(added) :
                            \E j \in 1..Len(last'.result.Resources) :
                                last'.result.Resources[j] =
                                    Entry(added[i].title,
                                          AWSObject_to_dict(added[i]))
                 /\ last'.op = "cfn_policy_document" =>
                        IsSuffix(PolicySum(batch, s), last'.result)]_vars

\* An add called after a query has returned, the template extended by the
\* resources of the element.
C17_Witness ==
    /\ last.op = "add" /\ last.after_query /\ last.raised = "none"
    /\ last.arg = fun
    /\ constructs[last.stack] = <<queue1, fun>>
    /\ Len(template[last.stack]) = 3

\* The files that staging every construct of cs in root_dir puts there.
RECURSIVE FilesOf(_, _)
FilesOf(cs, root_dir) ==
    IF cs = <<>> THEN <<>>
    ELSE (IF isinstance(Head(cs), "Construct")
          THEN Construct_create_data_dir(Head(cs), root_dir)
          ELSE <<>>) \o FilesOf(Tail(cs), root_dir)

\* C18: when create_data_dir raises, it is the failure of one construct of
\* constructs: the constructs up to that one have been called, once each
\* and in order, the files of those before it are in root_dir, and no
\* construct after it has been called.
C18_DataDirStopsAtFailure ==
    (last.op = "create_data_dir" /\ last.raised # "none") =>
        LET cs == constructs[last.stack]
        IN  /\ last.raised = "StagingIOFailure"
            /\ \E i \in 1..Len(cs) :
                   /\ writes_data(cs[i])
                   /\ last.invoked =
                          DataDirCalls(SubSeq(cs, 1, i), last.arg)
                   /\ last.result =
                          FilesOf(SubSeq(cs, 1, i - 1), last.arg)

\* create_data_dir has raised at the second of two functions, followed by
\* another construct: two calls made, the file of the first in root_dir.
C18_Witness ==
    /\ last.op = "create_data_dir" /\ last.raised = "StagingIOFailure"
    /\ constructs[last.stack] = <<fun, fun, empty>>
    /\ Len(last.invoked) = 2
    /\ last.result = Construct_create_data_dir(fun, last.arg)
    /\ Len(last.result) = 1

\* The cfn_policy_document calls of a stack s on the constructs of cs.
PolicyCalls(cs, s) ==
    LET c == SelectSeq(cs, LAMBDA x : isinstance(x, "Construct"))
    IN  [i \in 1..Len(c) |-> Call("cfn_policy_document", c[i], s)]

\* C19: an add whose resources() raises has appended the whole batch to
\* constructs and left the template alone, and the cfn_policy_document and
\* create_data_dir that follow call every construct of the list, those of
\* the failed add included.
C19_FailedAddKeepsBatch ==
    [][/\ \A s \in Stacks :
              (AddStep(s) /\ last'.raised = "ExpansionFailure") =>
                  /\ constructs'[s] = constructs[s] \o batch_of(last'.arg)
                  /\ template'[s] = template[s]
                  /\ last'.result = None
       /\ (/\ last.op = "add" /\ last.raised = "ExpansionFailure"
           /\ last'.op \in {"cfn_policy_document", "create_data_dir"}
           /\ last'.stack = last.stack
           /\ last'.raised = "none") =>
              LET cs == constructs[last.stack]
              IN  /\ \E i \in 1..Len(cs) : resources_raises(cs[i])
                  /\ last'.op = "cfn_policy_document" =>
                         /\ last'.invoked = PolicyCalls(cs, last.stack)
                         /\ last'.result = PolicySum(cs, last.stack)
                  /\ last'.op = "create_data_dir" =>
                         /\ last'.invoked = DataDirCalls(cs, last'.arg)
                         /\ last'.result = FilesOf(cs, last'.arg)]_vars

\* The add of a stack holding fun and the broken construct has raised, and
\* cfn_policy_document then returns the statements of both.
C19_Witness ==
    /\ last.op = "cfn_policy_document" /\ last.stack = "A"
    /\ constructs["A"] = <<fun, broken>>
    /\ template["A"] = <<>>
    /\ Len(last.invoked) = 2
    /\ Len(last.result) = 3

\* C20: an add on a stack changes the constructs, the template and the
\* metadata of no other stack: neither those of the stack it is given, nor,
\* later, those of a stack that has taken its constructs.
C20_StacksStayApart ==
    [][\A s, t \in Stacks :
          (t # s /\ AddStep(s)) =>
              /\ constructs'[t] = constructs[t]
              /\ template'[t] = template[t]
              /\ description'[t] = description[t]
              /\ s3_bucket'[t] = s3_bucket[t]]_vars

\* A.add(B) has returned for an empty A: B holds what it held, and A has
\* its own expansion of it.
C20_Witness ==
    /\ last.op = "add" /\ last.stack = "A" /\ last.arg = StackRef("B")
    /\ last.result = "A"
    /\ constructs["B"] = <<queue1, fun>>
    /\ constructs["A"] = <<queue1, fun>>
    /\ Len(template["B"]) = 3
    /\ DictGet(template["B"], <<"A", "B">>).props = "bucketB"
    /\ DictGet(template["A"], <<"A", "B">>).props = "bucketA"

\* C21: two runs that make the same adds, with the same staging location at
\* each add, export the same Resources, whatever staging location either
\* has been given since; the template holds what the adds put in it, and
\* of the metadata export reads the description alone.
C21_TemplateIsSnapshot ==
    /\ constructs["A"] = constructs["B"]
    /\ template["A"] = template["B"]
    /\ last.op = "export_runs" =>
           /\ last.result["A"].Resources = last.result["B"].Resources
           /\ \A s \in Stacks :
                  /\ last.result[s].Resources =
                         Template_to_dict(template[s]).Resources
                  /\ "Description" \in DOMAIN last.result[s] <=>
                         description[s] # None
                  /\ description[s] # None =>
                         last.result[s].Description = description[s]

\* Both runs have added a function with the bucket cfn_bucket; one has then
\* been given another bucket and another description, and both export the
\* function as staged in cfn_bucket.
C21_Witness ==
    /\ last.op = "export_runs"
    /\ constructs["A"] = <<queue1, fun>>
    /\ s3_bucket["A"] = "bucketA" /\ s3_bucket["B"] = "cfn_bucket"
    /\ description["A"] # description["B"]
    /\ description["A"] # None /\ description["B"] # None
    /\ Len(last.result["A"].Resources) = 3
    /\ last.result["A"].Resources[2].value.Properties = "cfn_bucket"
    /\ last.result["A"].Description # last.result["B"].Description

====
